---- MODULE Spec2Model ----
(***************************************************************************)
(* Model of the batch speech-analytics client of src/sarvam.js: the        *)
(* SarvamBatchClient class and the orchestrating function main().          *)
(*                                                                         *)
(* One workflow run is one behaviour.  Every await of main() is one        *)
(* action whose outcome (resolve / reject, response payload) is chosen     *)
(* nondeterministically: the remote service and the local file system are  *)
(* the environment.  Strings that the code takes apart (the audio source   *)
(* specifier, the file name) are sequences of one-character strings.       *)
(***************************************************************************)
EXTENDS Integers, Sequences, FiniteSets, TLC

VARIABLES
    pc,                 \* position of main() / of the module body
    exitCode,           \* process exit status, -1 while the process runs
    caught,             \* operation whose error reached main's catch, or "none"
    audioSource,        \* AUDIO_SOURCE (configuration)
    jobId, inputStoragePath, outputStoragePath,   \* SarvamBatchClient fields
    calls,              \* per operation: number of invocations so far
    result,             \* per operation: outcome of the last invocation
    stream,             \* the audio stream handle: "none", "ready", "consumed"
    name,               \* file name returned by getAudioStream
    remoteInput,        \* objects held by the remote input storage
    attempts, status,   \* locals of the poll loop
    sleeps,             \* number of completed setTimeout(interval) waits
    nonTerminal,        \* number of non-terminal status responses received
    signal,             \* what the poll loop reported on the console
    loggedError,        \* error_message printed by the Failed branch
    destDir,            \* TRUE iff DESTINATION_DIR exists
    listing,            \* listResponse.data
    fileIdx,            \* index of the for-of loop over the listing
    requested,          \* names whose download request was issued, in order
    writer,             \* per listing index: state of its fs.WriteStream
    src,                \* per listing index: state of the download stream
    pos,                \* per listing index: bytes piped so far
    localFiles,         \* per name: content of DESTINATION_DIR/name
    exists,             \* names present in DESTINATION_DIR
    downloaded,         \* names reported by console.log(`Downloaded: ...`)
    complete,           \* TRUE iff "=== Processing Complete ===" was printed
    utterance,          \* synchronous variant: an utterance of the response
    formatted           \* synchronous variant: its record in `transcript`

mainVars   == <<pc, exitCode, caught>>
clientVars == <<jobId, inputStoragePath, outputStoragePath>>
histVars   == <<calls, result>>
audioVars  == <<stream, name, remoteInput>>
pollVars   == <<attempts, status, sleeps, nonTerminal, signal, loggedError>>
dlVars     == <<destDir, listing, fileIdx, requested, writer, src, pos,
                localFiles, exists, downloaded, complete>>
\* What no step of the batch workflow writes: its configuration, and the
\* state of the synchronous variant.
restVars   == <<audioSource, utterance, formatted>>
vars       == <<mainVars, restVars, clientVars, histVars, audioVars,
                pollVars, dlVars>>

(***************************************************************************)
(* Bounds of the model.                                                    *)
(***************************************************************************)
MaxFiles == 2           \* longest output listing the service returns
MaxUploads == 2         \* uploadFile calls a caller makes for one job
MaxSeconds == 3700      \* utterance times run over every second up to this

(***************************************************************************)
(* Program constants.                                                      *)
(***************************************************************************)
maxAttempts == 60
interval == 10000

Null == "null"
Undefined == "undefined"

Ops == {"initializeJob", "getAudioStream", "uploadFile", "startJob",
        "checkJobStatus", "listOutputs", "download"}

(***************************************************************************)
(* Strings as sequences of characters.                                     *)
(***************************************************************************)
DefaultName == <<"a", "u", "d", "i", "o", ".", "w", "a", "v">>

\* Values AUDIO_SOURCE is given in the model: a URL with a path, a bare host
\* URL, a URL ending in '/', a local path with a blank in the file name.
AudioSources ==
    { <<"h", "t", "t", "p", ":", "/", "/", "h", "/", "c", ".", "w">>,
      <<"h", "t", "t", "p", ":", "/", "/", "h">>,
      <<"h", "t", "t", "p", ":", "/", "/", "h", "/">>,
      <<"d", "/", "a", " ", "b">> }

StartsWithHttp(s) ==
    Len(s) >= 4 /\ SubSeq(s, 1, 4) = <<"h", "t", "t", "p">>

\* s.split('/').pop(): what follows the last '/', the whole of s if it has none.
LastSegment(s) ==
    LET slashes == {i \in 1..Len(s) : s[i] = "/"}
        last == IF slashes = {} THEN 0
                ELSE CHOOSE i \in slashes : \A j \in slashes : j <= i
    IN SubSeq(s, last + 1, Len(s))

\* AUDIO_SOURCE.split('/').pop() || 'audio.wav'
InferName(s) == IF LastSegment(s) = <<>> THEN DefaultName ELSE LastSegment(s)

Unreserved == {"a", "b", "c", "d", "h", "i", "o", "p", "t", "u", "v", "w",
               ".", "-", "_", "!", "~", "*", "'", "(", ")"}

EncodeChar(c) ==
    IF c \in Unreserved THEN <<c>>
    ELSE IF c = " " THEN <<"%", "2", "0">>
    ELSE IF c = "/" THEN <<"%", "2", "F">>
    ELSE IF c = ":" THEN <<"%", "3", "A">>
    ELSE <<"%", "?", "?">>

RECURSIVE EncodeURIComponent(_)
EncodeURIComponent(s) ==
    IF s = <<>> THEN <<>>
    ELSE EncodeChar(Head(s)) \o EncodeURIComponent(Tail(s))

(***************************************************************************)
(* The environment: what the remote service may answer.                    *)
(***************************************************************************)
InitResponses ==
    { [job_id |-> "job1", input_storage_path |-> "in1",
       output_storage_path |-> "out1"],
      [job_id |-> "job2", input_storage_path |-> "in2",
       output_storage_path |-> "out2"] }

JobStates == {"Pending", "Running", "Completed", "Failed", "completed",
              "Queued", Undefined}

ErrorMessages == {"bad audio", Undefined}

StatusResponses ==
    { [job_state |-> s, error_message |-> Undefined] : s \in JobStates \ {"Failed"} }
    \cup { [job_state |-> "Failed", error_message |-> m] : m \in ErrorMessages }

Names == {"a.json", "b.txt"}

\* The bytes the service serves for an output artifact.
RemoteContent(n) == IF n = "a.json" THEN <<1, 2>> ELSE <<3>>

\* What a file left in DESTINATION_DIR by an earlier run holds.
StaleContent == <<9>>

Listings == UNION { [1..n -> Names] : n \in 0..MaxFiles }

Idx == 1..MaxFiles

(***************************************************************************)
(* Initial state: the module is loaded, nothing has run.                   *)
(***************************************************************************)
NoRecord == [start |-> <<>>, end |-> <<>>, speaker |-> <<>>]
NoCalls == [o \in Ops |-> 0]
NoResults == [o \in Ops |-> "none"]

\* The batch workflow before its first step, but for its position and
\* for what the environment chooses.
Fresh ==
    /\ exitCode = -1
    /\ caught = "none"
    /\ jobId = Null
    /\ inputStoragePath = Null
    /\ outputStoragePath = Null
    /\ calls = NoCalls
    /\ result = NoResults
    /\ stream = "none"
    /\ name = <<>>
    /\ remoteInput = {}
    /\ attempts = 0
    /\ status = ""
    /\ sleeps = 0
    /\ nonTerminal = 0
    /\ signal = "none"
    /\ loggedError = "none"
    /\ localFiles = [n \in Names |-> IF n \in exists THEN StaleContent ELSE <<>>]
    /\ listing = <<>>
    /\ fileIdx = 0
    /\ requested = <<>>
    /\ writer = [i \in Idx |-> "none"]
    /\ src = [i \in Idx |-> "none"]
    /\ pos = [i \in Idx |-> 0]
    /\ downloaded = <<>>
    /\ complete = FALSE
    /\ formatted = NoRecord

Init ==
    /\ pc = "boot"
    /\ audioSource \in AudioSources
    /\ destDir \in BOOLEAN
    /\ exists \in (IF destDir THEN {{}, {"a.json"}} ELSE {{}})
    /\ utterance = NoRecord
    /\ Fresh

(***************************************************************************)
(* Helpers for the effects every remote-call wrapper shares.               *)
(***************************************************************************)
\* The operation op is invoked and ends with outcome r ("ok" or "failed").
Called(op, r) ==
    /\ calls' = [calls EXCEPT ![op] = @ + 1]
    /\ result' = [result EXCEPT ![op] = r]

\* main's catch block: console.error, process.exit(1).
MainCatch(op) ==
    /\ pc' = "exited"
    /\ exitCode' = 1
    /\ caught' = op

\* main returns (or falls off its end); the process ends with status 0.
MainReturn ==
    /\ pc' = "exited"
    /\ exitCode' = 0
    /\ caught' = caught

Goto(l) ==
    /\ pc' = l
    /\ UNCHANGED <<exitCode, caught>>

\* The awaits of main's steps 1 to 3 in program order, then the poll loop.
MainOrder_AudioFirst == <<"audio", "init", "upload", "start", "loop">>

MainOrder == <<"init", "audio", "upload", "start", "loop">>

\* The step main performs once step l has resolved.
After(l) ==
    MainOrder[(CHOOSE k \in 1..(Len(MainOrder) - 1) : MainOrder[k] = l) + 1]

\* The bytes of the audio recording.
AudioContent == <<7, 8>>

\* A PUT of content c to destination d: the object at d is replaced.
Put(store, d, c) ==
    {o \in store : o.path # d} \cup {[path |-> d, content |-> c]}

\* Variant: every upload gets a destination of its own.
UploadDest_Unique(path, fileName) ==
    <<path, EncodeURIComponent(fileName)
              \o (IF calls["uploadFile"] = 0 THEN <<"-", "a">> ELSE <<"-", "b">>)>>

\* `${this.inputStoragePath}/${encodeURIComponent(fileName)}`
UploadDest(path, fileName) == <<path, EncodeURIComponent(fileName)>>

(***************************************************************************)
(* Module body: the API key check, then main() starts and constructs the   *)
(* client.                                                                 *)
(***************************************************************************)
LoadModule ==
    /\ pc = "boot"
    /\ \E keySet \in BOOLEAN :
          IF keySet
          THEN Goto(MainOrder[1])
          ELSE /\ pc' = "exited"
               /\ exitCode' = 1
               /\ caught' = caught
    /\ jobId' = Null
    /\ inputStoragePath' = Null
    /\ outputStoragePath' = Null
    /\ UNCHANGED <<restVars, histVars, audioVars, pollVars, dlVars>>

\* Variant: the output location is not recorded.
InitializeJob_Partial ==
    /\ pc = "init"
    /\ \/ \E data \in InitResponses :
             /\ jobId' = data.job_id
             /\ inputStoragePath' = data.input_storage_path
             /\ outputStoragePath' = outputStoragePath
             /\ Called("initializeJob", "ok")
             /\ Goto(After("init"))
       \/ /\ Called("initializeJob", "failed")
          /\ MainCatch("initializeJob")
          /\ UNCHANGED clientVars
    /\ UNCHANGED <<restVars, audioVars, pollVars, dlVars>>

InitializeJob ==
    /\ pc = "init"
    /\ \/ \E data \in InitResponses :
             /\ jobId' = data.job_id
             /\ inputStoragePath' = data.input_storage_path
             /\ outputStoragePath' = data.output_storage_path
             /\ Called("initializeJob", "ok")
             /\ Goto(After("init"))
       \/ /\ Called("initializeJob", "failed")
          /\ MainCatch("initializeJob")
          /\ UNCHANGED clientVars
    /\ UNCHANGED <<restVars, audioVars, pollVars, dlVars>>

GetAudioStream ==
    /\ pc = "audio"
    /\ IF StartsWithHttp(audioSource)
       THEN \/ \* axios.get resolves with the response body stream
               /\ stream' = "ready"
               /\ name' = InferName(audioSource)
               /\ Called("getAudioStream", "ok")
               /\ Goto(After("audio"))
            \/ \* axios.get rejects; nothing in getAudioStream catches it
               /\ Called("getAudioStream", "failed")
               /\ MainCatch("getAudioStream")
               /\ UNCHANGED <<stream, name>>
       ELSE \E fileExists \in BOOLEAN :
               IF fileExists
               THEN /\ stream' = "ready"
                    /\ name' = InferName(audioSource)
                    /\ Called("getAudioStream", "ok")
                    /\ Goto(After("audio"))
               ELSE /\ Called("getAudioStream", "failed")
                    /\ MainCatch("getAudioStream")
                    /\ UNCHANGED <<stream, name>>
    /\ UNCHANGED <<restVars, clientVars, remoteInput, pollVars, dlVars>>

\* Variant: a rejected upload is logged and not rethrown.
UploadFile_Swallow ==
    /\ pc = "upload"
    /\ stream' = "consumed"
    /\ \/ /\ remoteInput' = Put(remoteInput,
                                   UploadDest(inputStoragePath, name),
                                   AudioContent)
          /\ Called("uploadFile", "ok")
          /\ Goto(After("upload"))
       \/ /\ Called("uploadFile", "failed")
          /\ Goto(After("upload"))
          /\ UNCHANGED remoteInput
    /\ UNCHANGED <<restVars, clientVars, name, pollVars, dlVars>>

\* Variant: a rejected upload is tried again.
UploadFile_Retry ==
    /\ pc = "upload"
    /\ stream' = "consumed"
    /\ \/ /\ remoteInput' = Put(remoteInput,
                                   UploadDest(inputStoragePath, name),
                                   AudioContent)
          /\ Called("uploadFile", "ok")
          /\ Goto(After("upload"))
       \/ /\ Called("uploadFile", "failed")
          /\ Goto("upload")
          /\ UNCHANGED remoteInput
    /\ UNCHANGED <<restVars, clientVars, name, pollVars, dlVars>>

UploadFile ==
    /\ pc = "upload"
    /\ stream' = "consumed"
    /\ \/ /\ remoteInput' = Put(remoteInput,
                                   UploadDest(inputStoragePath, name),
                                   AudioContent)
          /\ Called("uploadFile", "ok")
          /\ Goto(After("upload"))
       \/ /\ Called("uploadFile", "failed")
          /\ MainCatch("uploadFile")
          /\ UNCHANGED remoteInput
    /\ UNCHANGED <<restVars, clientVars, name, pollVars, dlVars>>

\* A caller invokes uploadFile once more, after an upload that resolved,
\* with the same name and a fresh stream of the same content.
UploadFileAgain ==
    /\ pc = After("upload")
    /\ calls["uploadFile"] < MaxUploads
    /\ \/ /\ remoteInput' = Put(remoteInput,
                                   UploadDest(inputStoragePath, name),
                                   AudioContent)
          /\ Called("uploadFile", "ok")
       \/ /\ Called("uploadFile", "failed")
          /\ UNCHANGED remoteInput
    /\ UNCHANGED <<mainVars, restVars, clientVars, stream, name, pollVars,
                   dlVars>>

\* Variant: a rejected start is logged and not rethrown.
StartJob_Swallow ==
    /\ pc = "start"
    /\ \/ /\ Called("startJob", "ok")
          /\ Goto(After("start"))
       \/ /\ Called("startJob", "failed")
          /\ Goto(After("start"))
    /\ UNCHANGED <<restVars, clientVars, audioVars, pollVars, dlVars>>

StartJob ==
    /\ pc = "start"
    /\ \/ /\ Called("startJob", "ok")
          /\ Goto(After("start"))
       \/ /\ Called("startJob", "failed")
          /\ MainCatch("startJob")
    /\ UNCHANGED <<restVars, clientVars, audioVars, pollVars, dlVars>>

(***************************************************************************)
(* Step 4 of main: the poll loop.                                          *)
(***************************************************************************)
\* Variant: the loop catches a rejected status check and polls again.
StatusCheckThrows_Transient ==
    /\ Called("checkJobStatus", "failed")
    /\ Goto("sleep")
    /\ UNCHANGED <<status, sleeps, nonTerminal, signal, loggedError>>

\* checkJobStatus rejects: its catch logs and rethrows, the loop has no
\* handler of its own, so the error leaves the loop and reaches main's catch.
StatusCheckThrows ==
    /\ Called("checkJobStatus", "failed")
    /\ MainCatch("checkJobStatus")
    /\ UNCHANGED <<status, sleeps, nonTerminal, signal, loggedError>>

\* Variant: no sleep follows the response to the last attempt.
StatusBranch_NoLastSleep(r) ==
    IF r.job_state = "Completed"
    THEN /\ signal' = "completed"
         /\ Goto("afterLoop")
         /\ UNCHANGED <<sleeps, nonTerminal, loggedError>>
    ELSE IF r.job_state = "Failed"
    THEN /\ signal' = "failed"
         /\ loggedError' = r.error_message
         /\ MainReturn
         /\ UNCHANGED <<sleeps, nonTerminal>>
    ELSE /\ nonTerminal' = nonTerminal + 1
         /\ Goto(IF attempts + 1 < maxAttempts THEN "sleep" ELSE "loop")
         /\ UNCHANGED <<sleeps, signal, loggedError>>

\* Variant: the job state is compared without regard to case.
StatusBranch_IgnoreCase(r) ==
    IF r.job_state \in {"Completed", "completed"}
    THEN /\ signal' = "completed"
         /\ Goto("afterLoop")
         /\ UNCHANGED <<sleeps, nonTerminal, loggedError>>
    ELSE IF r.job_state = "Failed"
    THEN /\ signal' = "failed"
         /\ loggedError' = r.error_message
         /\ MainReturn
         /\ UNCHANGED <<sleeps, nonTerminal>>
    ELSE /\ nonTerminal' = nonTerminal + 1
         /\ Goto("sleep")
         /\ UNCHANGED <<sleeps, signal, loggedError>>

\* Variant: the Completed branch lacks its break.
StatusBranch_NoBreak(r) ==
    IF r.job_state = "Completed"
    THEN /\ signal' = "completed"
         /\ Goto("sleep")
         /\ UNCHANGED <<sleeps, nonTerminal, loggedError>>
    ELSE IF r.job_state = "Failed"
    THEN /\ signal' = "failed"
         /\ loggedError' = r.error_message
         /\ MainReturn
         /\ UNCHANGED <<sleeps, nonTerminal>>
    ELSE /\ nonTerminal' = nonTerminal + 1
         /\ Goto("sleep")
         /\ UNCHANGED <<sleeps, signal, loggedError>>

\* The if / else-if of the loop body, for the response r.
StatusBranch(r) ==
    IF r.job_state = "Completed"
    THEN \* break
         /\ signal' = "completed"
         /\ Goto("afterLoop")
         /\ UNCHANGED <<sleeps, nonTerminal, loggedError>>
    ELSE IF r.job_state = "Failed"
    THEN \* console.log('Error:', statusResponse.error_message); return
         /\ signal' = "failed"
         /\ loggedError' = r.error_message
         /\ MainReturn
         /\ UNCHANGED <<sleeps, nonTerminal>>
    ELSE \* falls through to the setTimeout promise
         /\ nonTerminal' = nonTerminal + 1
         /\ Goto("sleep")
         /\ UNCHANGED <<sleeps, signal, loggedError>>

\* while (attempts < maxAttempts) { attempts++; await checkJobStatus(); ... }
PollIteration ==
    /\ pc = "loop"
    /\ attempts < maxAttempts
    /\ attempts' = attempts + 1
    /\ \/ \E r \in StatusResponses :
             /\ Called("checkJobStatus", "ok")
             /\ status' = r.job_state
             /\ StatusBranch(r)
       \/ StatusCheckThrows
    /\ UNCHANGED <<restVars, clientVars, audioVars, dlVars>>

\* await new Promise(resolve => setTimeout(resolve, interval))
Sleep ==
    /\ pc = "sleep"
    /\ sleeps' = sleeps + 1
    /\ Goto("loop")
    /\ UNCHANGED <<restVars, clientVars, histVars, audioVars, attempts,
                   status, nonTerminal, signal, loggedError, dlVars>>

\* The loop condition is false: control leaves the while.
LoopExit ==
    /\ pc = "loop"
    /\ ~(attempts < maxAttempts)
    /\ Goto("afterLoop")
    /\ UNCHANGED <<restVars, clientVars, histVars, audioVars, pollVars,
                   dlVars>>

\* Variant: the check after the loop is missing.
AfterLoop_NoCheck ==
    /\ pc = "afterLoop"
    /\ Goto("download")
    /\ UNCHANGED <<restVars, clientVars, histVars, audioVars, pollVars,
                   dlVars>>

\* if (status !== 'Completed') { console.log(...); return; }
AfterLoop ==
    /\ pc = "afterLoop"
    /\ IF status # "Completed"
       THEN /\ signal' = "timeout"
            /\ MainReturn
       ELSE /\ Goto("download")
            /\ UNCHANGED signal
    /\ UNCHANGED <<restVars, clientVars, histVars, audioVars, attempts,
                   status, sleeps, nonTerminal, loggedError, dlVars>>

(***************************************************************************)
(* Step 5 of main: downloadResults.                                        *)
(***************************************************************************)
\* The for-of loop over the listing l moves to index i: the next request,
\* or, past the end of the listing, downloadResults returns and main prints
\* its last lines.
LoopNext(l, i) ==
    /\ fileIdx' = i
    /\ IF i > Len(l)
       THEN /\ complete' = TRUE
            /\ MainReturn
       ELSE /\ Goto("dl_request")
            /\ UNCHANGED complete

\* fs.mkdirSync when absent, then the listing request.
ListOutputs ==
    /\ pc = "download"
    /\ destDir' = TRUE
    /\ \/ \E l \in Listings :
             /\ listing' = l
             /\ Called("listOutputs", "ok")
             /\ LoopNext(l, 1)
       \/ /\ Called("listOutputs", "failed")
          /\ MainCatch("downloadResults")
          /\ UNCHANGED <<listing, fileIdx, complete>>
    /\ UNCHANGED <<restVars, clientVars, audioVars, pollVars, requested,
                   writer, src, pos, localFiles, exists, downloaded>>

\* Variant: the loop does not await the writer before the next entry.
DownloadFile_NoAwait ==
    /\ pc = "dl_request"
    /\ requested' = Append(requested, listing[fileIdx])
    /\ \/ /\ Called("download", "ok")
          /\ writer' = [writer EXCEPT ![fileIdx] = "opening"]
          /\ src' = [src EXCEPT ![fileIdx] = "flowing"]
          /\ pos' = [pos EXCEPT ![fileIdx] = 0]
          /\ downloaded' = Append(downloaded, listing[fileIdx])
          /\ LoopNext(listing, fileIdx + 1)
       \/ /\ Called("download", "failed")
          /\ MainCatch("downloadResults")
          /\ UNCHANGED <<writer, src, pos, fileIdx, downloaded, complete>>
    /\ UNCHANGED <<restVars, clientVars, audioVars, pollVars, destDir,
                   listing, localFiles, exists>>

\* The body of the for-of loop up to its await: the download request, then
\* fs.createWriteStream and pipe, then main waits for 'finish' or 'error'
\* of the writer.
DownloadFile ==
    /\ pc = "dl_request"
    /\ requested' = Append(requested, listing[fileIdx])
    /\ \/ /\ Called("download", "ok")
          /\ writer' = [writer EXCEPT ![fileIdx] = "opening"]
          /\ src' = [src EXCEPT ![fileIdx] = "flowing"]
          /\ pos' = [pos EXCEPT ![fileIdx] = 0]
          /\ Goto("dl_await")
       \/ /\ Called("download", "failed")
          /\ MainCatch("downloadResults")
          /\ UNCHANGED <<writer, src, pos>>
    /\ UNCHANGED <<restVars, clientVars, audioVars, pollVars, destDir,
                   listing, fileIdx, localFiles, exists, downloaded, complete>>

\* The write stream opens its file with flag 'w': created or truncated.
WriterOpened(i) ==
    /\ pc # "exited"
    /\ writer[i] = "opening"
    /\ writer' = [writer EXCEPT ![i] = "open"]
    /\ exists' = exists \cup {listing[i]}
    /\ localFiles' = [localFiles EXCEPT ![listing[i]] = <<>>]
    /\ UNCHANGED <<mainVars, restVars, clientVars, histVars, audioVars,
                   pollVars, destDir, listing, fileIdx, requested, src, pos,
                   downloaded, complete>>

\* pipe: one chunk of the download stream is written to the file.
PipeChunk(i) ==
    /\ pc # "exited"
    /\ writer[i] = "open"
    /\ src[i] = "flowing"
    /\ pos[i] < Len(RemoteContent(listing[i]))
    /\ localFiles' = [localFiles EXCEPT ![listing[i]] =
                         Append(@, RemoteContent(listing[i])[pos[i] + 1])]
    /\ pos' = [pos EXCEPT ![i] = @ + 1]
    /\ UNCHANGED <<mainVars, restVars, clientVars, histVars, audioVars,
                   pollVars, destDir, listing, fileIdx, requested, writer,
                   src, exists, downloaded, complete>>

\* The download stream ends: pipe ends the writer, which emits 'finish' and
\* closes; the promise main awaits resolves and the loop goes on.
StreamEnd(i) ==
    /\ pc # "exited"
    /\ writer[i] = "open"
    /\ src[i] = "flowing"
    /\ pos[i] = Len(RemoteContent(listing[i]))
    /\ src' = [src EXCEPT ![i] = "ended"]
    /\ writer' = [writer EXCEPT ![i] = "closed"]
    /\ IF pc = "dl_await" /\ fileIdx = i
       THEN /\ downloaded' = Append(downloaded, listing[i])
            /\ LoopNext(listing, i + 1)
       ELSE UNCHANGED <<mainVars, fileIdx, downloaded, complete>>
    /\ UNCHANGED <<restVars, clientVars, histVars, audioVars, pollVars,
                   destDir, listing, requested, pos, localFiles, exists>>

\* The writer emits 'error': opening the file failed, or a write or the
\* final flush failed while the download stream still feeds it (an open
\* writer that nothing writes to has no operation that could fail).  The
\* writer is destroyed, the promise rejects, downloadResults logs and
\* rethrows to main's catch.
WriterError(i) ==
    /\ pc # "exited"
    /\ \/ writer[i] = "opening"
       \/ writer[i] = "open" /\ src[i] = "flowing"
    /\ writer' = [writer EXCEPT ![i] = "closed"]
    /\ IF pc = "dl_await" /\ fileIdx = i
       THEN MainCatch("downloadResults")
       ELSE UNCHANGED mainVars
    /\ UNCHANGED <<restVars, clientVars, histVars, audioVars, pollVars,
                   destDir, listing, fileIdx, requested, src, pos, localFiles,
                   exists, downloaded, complete>>

\* The download stream emits 'error' while it is piped.  pipe does not end
\* or destroy the writer, and the promise listens to the writer only.  With
\* no 'error' listener on the stream the event is an uncaught exception and
\* the process dies with status 1; with one (the HTTP library may attach it)
\* nothing happens and main stays suspended.
StreamError(i) ==
    /\ pc # "exited"
    /\ writer[i] \in {"opening", "open"}
    /\ src[i] = "flowing"
    /\ src' = [src EXCEPT ![i] = "errored"]
    /\ \E uncaught \in BOOLEAN :
          IF uncaught
          THEN /\ pc' = "exited"
               /\ exitCode' = 1
               /\ caught' = caught
          ELSE UNCHANGED mainVars
    /\ UNCHANGED <<restVars, clientVars, histVars, audioVars, pollVars,
                   destDir, listing, fileIdx, requested, writer, pos,
                   localFiles, exists, downloaded, complete>>

Next ==
    \/ LoadModule
    \/ InitializeJob
    \/ GetAudioStream
    \/ UploadFile
    \/ StartJob
    \/ PollIteration
    \/ Sleep
    \/ LoopExit
    \/ AfterLoop
    \/ ListOutputs
    \/ DownloadFile
    \/ \E i \in Idx : WriterOpened(i)
    \/ \E i \in Idx : PipeChunk(i)
    \/ \E i \in Idx : StreamEnd(i)
    \/ \E i \in Idx : WriterError(i)
    \/ \E i \in Idx : StreamError(i)

Spec == Init /\ [][Next]_vars

\* uploadFile exercised by a caller that repeats it.
NextUpload ==
    \/ LoadModule
    \/ InitializeJob
    \/ GetAudioStream
    \/ UploadFile
    \/ UploadFileAgain

SpecUpload == Init /\ [][NextUpload]_vars


(***************************************************************************)
(* The synchronous variant (src/main.js): the formatting of an utterance.  *)
(* Times are numbers of tenths of a second, so that Math.round has         *)
(* something to round.                                                     *)
(***************************************************************************)
DigitChars == <<"0", "1", "2", "3", "4", "5", "6", "7", "8", "9">>

\* Number.prototype.toString / String(n) of a non-negative integer.
RECURSIVE NumToString(_)
NumToString(n) ==
    IF n < 10 THEN <<DigitChars[n + 1]>>
    ELSE NumToString(n \div 10) \o <<DigitChars[(n % 10) + 1]>>

\* String.prototype.padStart(len, ch) for a one-character ch.
RECURSIVE PadStart(_, _, _)
PadStart(s, len, ch) ==
    IF Len(s) >= len THEN s ELSE PadStart(<<ch>> \o s, len, ch)

\* Math.round of a non-negative time given in tenths: halves round up.
MathRound(t) == (t + 5) \div 10

\* Variant: the minutes are not reduced modulo the hour.
fmt_MinutesNotReduced(t) ==
    LET s == MathRound(t)
        h == s \div 3600
        m == s \div 60
        sec == s % 60
    IN NumToString(h) \o <<":">> \o PadStart(NumToString(m), 2, "0")
           \o <<":">> \o PadStart(NumToString(sec), 2, "0")

fmt(t) ==
    LET s == MathRound(t)
        h == s \div 3600
        m == (s % 3600) \div 60
        sec == s % 60
    IN NumToString(h) \o <<":">> \o PadStart(NumToString(m), 2, "0")
           \o <<":">> \o PadStart(NumToString(sec), 2, "0")

\* `SPEAKER${String(u.speaker).padStart(2,'0')}`
SpeakerLabel(n) ==
    <<"S", "P", "E", "A", "K", "E", "R">> \o PadStart(NumToString(n), 2, "0")

\* Times beyond MaxSeconds that the model also formats, in seconds.
LongTimes == {35999, 36000, 86399, 360000, 3599999}

\* Utterance start times, in tenths: whole seconds and half seconds.
StartTimes ==
    {10 * s + f : s \in (0..MaxSeconds) \cup LongTimes, f \in {0, 5}}

Speakers == {0, 7, 12, 123}

\* An utterance of resp.results.utterances; it lasts 61.5 seconds.
Utterances ==
    {[start |-> t, end |-> t + 615, speaker |-> k] :
        t \in StartTimes, k \in Speakers}

InitFmt ==
    /\ pc = "format"
    /\ audioSource = <<>>
    /\ destDir = FALSE
    /\ exists = {}
    /\ utterance \in Utterances
    /\ Fresh

\* utterances.map(u => ({start: fmt(u.start), end: fmt(u.end), ...,
\* speaker: `SPEAKER...`}))
FormatUtterance ==
    /\ pc = "format"
    /\ formatted' = [start |-> fmt(utterance.start),
                     end |-> fmt(utterance.end),
                     speaker |-> SpeakerLabel(utterance.speaker)]
    /\ pc' = "formatted"
    /\ UNCHANGED <<exitCode, caught, audioSource, utterance, clientVars,
                   histVars, audioVars, pollVars, dlVars>>

NextFmt == FormatUtterance

SpecFmt == InitFmt /\ [][NextFmt]_vars

(***************************************************************************)
(* Properties.                                                             *)
(***************************************************************************)
Invoked(op) == calls[op] > 0
Resolved(op) == result[op] = "ok"
Rejected(op) == result[op] = "failed"

\* An error was raised inside main, i.e. reached its catch block.
Raised == caught # "none"

\* C1: startJob is invoked only after uploadFile resolved; when
\* initializeJob, getAudioStream or uploadFile fails, startJob is never
\* invoked in that run.
C1_StartOnlyAfterUpload ==
    /\ Invoked("startJob") => Resolved("uploadFile")
    /\ (\E op \in {"initializeJob", "getAudioStream", "uploadFile"} :
            Rejected(op)) => ~Invoked("startJob")

C1_Witness == calls["startJob"] = 1 /\ Resolved("uploadFile")

\* C2: no status check follows the first response whose job_state is
\* Completed or Failed; the number of status checks never exceeds
\* maxAttempts; k-1 non-terminal responses followed by Completed make
\* exactly k checks, with the success message after the k-th.
C2_PollStopsAtTerminal ==
    [][ /\ calls'["checkJobStatus"] <= maxAttempts
        /\ status \in {"Completed", "Failed"}
              => calls'["checkJobStatus"] = calls["checkJobStatus"]
        /\ (status' = "Completed" /\ status # "Completed")
              => /\ calls'["checkJobStatus"] = nonTerminal' + 1
                 /\ signal # "completed"
                 /\ signal' = "completed" ]_vars

C2_Witness ==
    /\ status = "Completed"
    /\ calls["checkJobStatus"] = 3
    /\ nonTerminal = 2
    /\ signal = "completed"

\* C3 (as claimed): on a Failed response the loop exits at once, without a
\* sleep or a further check, and an error carrying the service's
\* error_message is raised.
C3_FailedRaisesRemoteJobFailure ==
    status = "Failed"
        => /\ pc = "exited"
           /\ sleeps = nonTerminal
           /\ calls["checkJobStatus"] = nonTerminal + 1
           /\ loggedError \in ErrorMessages
           /\ Raised

\* C4 (as claimed): when all maxAttempts responses are non-terminal the run
\* makes exactly maxAttempts status checks and then raises a timeout error,
\* distinct from the Failed outcome and from success.
C4_CeilingRaisesTimeout ==
    (pc = "exited" /\ nonTerminal = maxAttempts)
        => /\ calls["checkJobStatus"] = maxAttempts
           /\ signal = "timeout"
           /\ ~complete
           /\ Raised

\* C5 (as claimed): a run that ends after a failing remote call, a Failed
\* job state or the exhausted attempt ceiling ends with a non-zero exit
\* status; only a run that completed all downloads ends with status zero.
C5_ErrorsExitNonZero ==
    pc = "exited"
        => /\ (Raised \/ signal \in {"failed", "timeout"}) => exitCode # 0
           /\ exitCode = 0 => complete

\* C6: a list or download request is issued only in runs in which a status
\* response was Completed; after Failed or after the ceiling none is issued.
C6_DownloadOnlyAfterCompleted ==
    /\ (Invoked("listOutputs") \/ Invoked("download") \/ requested # <<>>)
          => (status = "Completed" /\ signal = "completed")
    /\ signal \in {"failed", "timeout"}
          => (~Invoked("listOutputs") /\ ~Invoked("download"))

C6_Witness == Invoked("download") /\ status = "Completed"

\* C7 (as claimed): a failing status check does not abort the run; polling
\* goes on while the ceiling is not reached.
C7_StatusFailureTransient ==
    Rejected("checkJobStatus")
        => /\ caught # "checkJobStatus"
           /\ attempts < maxAttempts => pc # "exited"

\* C7 (amended): a failing status check is fatal: it reaches main's catch,
\* the run ends with exit status 1, and neither a further status check nor
\* a download follows.
C7_StatusFailureFatal ==
    Rejected("checkJobStatus")
        => /\ pc = "exited"
           /\ caught = "checkJobStatus"
           /\ exitCode = 1
           /\ calls["checkJobStatus"] = nonTerminal + 1
           /\ ~Invoked("listOutputs")

C7_Witness ==
    /\ Rejected("checkJobStatus")
    /\ attempts = 2
    /\ pc = "exited"

\* C8 (as claimed): the audio stream is obtained before initializeJob is
\* invoked, so an unavailable audio source never leaves a job initialized.
C8_AudioBeforeInit ==
    /\ Invoked("initializeJob") => Resolved("getAudioStream")
    /\ Rejected("getAudioStream") => jobId = Null

\* C8 (amended): the order is initializeJob, getAudioStream, uploadFile,
\* startJob, status polling, download; getAudioStream is invoked only after
\* initializeJob resolved, so an unavailable audio source leaves a job
\* initialized on the service.
C8_InitBeforeAudio ==
    /\ Invoked("getAudioStream") => Resolved("initializeJob")
    /\ Invoked("uploadFile") => Resolved("getAudioStream")
    /\ Invoked("startJob") => Resolved("uploadFile")
    /\ Invoked("checkJobStatus") => Resolved("startJob")
    /\ Invoked("listOutputs") => (Invoked("checkJobStatus") /\ status = "Completed")
    /\ Invoked("download") => Resolved("listOutputs")
    /\ Rejected("getAudioStream") => jobId # Null

C8_Witness ==
    /\ Rejected("getAudioStream")
    /\ pc = "exited"
    /\ jobId = "job1"

\* C9: no status check is issued before startJob resolved; when startJob
\* fails the run issues no status check.
C9_NoStatusBeforeStart ==
    /\ Invoked("checkJobStatus") => Resolved("startJob")
    /\ Rejected("startJob") => calls["checkJobStatus"] = 0

C9_Witness == calls["checkJobStatus"] = 1 /\ Resolved("startJob")

InFlight == {i \in Idx : writer[i] \in {"opening", "open"}}

\* C10: one download per listed entry, in listing order; the download of
\* entry i+1 starts only after the write of entry i signalled completion,
\* so at most one is in flight; after successful completion every listed
\* name exists at the destination with the remote content.
C10_SequentialDownloads ==
    /\ Len(requested) <= Len(listing)
    /\ \A k \in 1..Len(requested) : requested[k] = listing[k]
    /\ Cardinality(InFlight) <= 1
    /\ \A k \in 2..Len(requested) :
          /\ writer[k - 1] = "closed"
          /\ src[k - 1] = "ended"
          /\ pos[k - 1] = Len(RemoteContent(listing[k - 1]))
    /\ complete
          => /\ requested = listing
             /\ downloaded = listing
             /\ InFlight = {}
             /\ \A k \in 1..Len(listing) :
                   /\ listing[k] \in exists
                   /\ localFiles[listing[k]] = RemoteContent(listing[k])

C10_Witness ==
    /\ complete
    /\ listing = <<"a.json", "b.txt">>
    /\ exitCode = 0

\* main is suspended on a promise that nothing will settle: the download
\* stream failed and the writer it fed stays open and idle.
Stalled ==
    /\ pc = "dl_await"
    /\ src[fileIdx] = "errored"
    /\ writer[fileIdx] = "open"

\* The download of entry i failed: its request was rejected, its stream
\* failed while piped, or its writer failed.
DownloadFailed(i) ==
    \/ Len(requested) = i /\ Rejected("download")
    \/ src[i] = "errored"
    \/ writer[i] = "closed" /\ src[i] # "ended"

\* C11 (as claimed): when the download of an artifact fails (request,
\* stream while piped, or write), no download is issued for the artifacts
\* after it, an error is propagated to the caller, and the files written so
\* far, the partial one included, stay in place.
C11_DownloadFailurePropagates ==
    \A i \in 1..Len(listing) :
        (DownloadFailed(i) /\ (pc = "exited" \/ Stalled))
            => /\ Len(requested) = i
               /\ caught = "downloadResults"
               /\ \A k \in 1..(i - 1) : listing[k] \in exists

\* The client's three fields hold the values of one init response.
AssignedFrom(data) ==
    /\ jobId = data.job_id
    /\ inputStoragePath = data.input_storage_path
    /\ outputStoragePath = data.output_storage_path

\* C12: jobId, inputStoragePath and outputStoragePath are unset until
\* initializeJob succeeds (and stay unset when it fails), are assigned
\* together from one init response, and no later step changes them.
C12_FieldsAssignedOnce ==
    /\ [](~Resolved("initializeJob")
            => (jobId = Null /\ inputStoragePath = Null
                /\ outputStoragePath = Null))
    /\ [](Resolved("initializeJob")
            => \E data \in InitResponses : AssignedFrom(data))
    /\ [][Resolved("initializeJob") => UNCHANGED clientVars]_vars

C12_Witness ==
    /\ AssignedFrom([job_id |-> "job2", input_storage_path |-> "in2",
                     output_storage_path |-> "out2"])
    /\ complete

\* C13: no lifecycle operation is retried: initializeJob, getAudioStream,
\* uploadFile, startJob and downloadResults are each invoked at most once
\* in a run, and the audio stream is consumed once, by the one uploadFile
\* call.
C13_NoRetry ==
    /\ \A op \in {"initializeJob", "getAudioStream", "uploadFile",
                   "startJob", "listOutputs"} : calls[op] <= 1
    /\ stream = "consumed" <=> calls["uploadFile"] = 1
    /\ stream = "ready" => (Resolved("getAudioStream") /\ pc = "upload")

C13_Witness ==
    /\ stream = "consumed"
    /\ Rejected("uploadFile")
    /\ pc = "exited"

\* What follows "://" in s, the whole of s if it has no scheme.
AfterScheme(s) ==
    LET marks == {i \in 1..(Len(s) - 2) : SubSeq(s, i, i + 2) = <<":", "/", "/">>}
    IN IF marks = {} THEN s
       ELSE SubSeq(s, (CHOOSE i \in marks : \A j \in marks : i <= j) + 3, Len(s))

\* The specifier names no file: it ends in '/', or it is a URI of a host
\* alone.
NoPathSegment(s) ==
    \/ s = <<>>
    \/ s[Len(s)] = "/"
    \/ StartsWithHttp(s) /\ \A i \in 1..Len(AfterScheme(s)) : AfterScheme(s)[i] # "/"

\* C14 (as claimed): the inferred name is the last '/'-separated segment
\* of the specifier, and a specifier with no path segment (a bare host
\* URI, or one ending in '/') yields the default name 'audio.wav'.
C14_NameIsLastPathSegment ==
    Resolved("getAudioStream")
        => name = IF NoPathSegment(audioSource) THEN DefaultName
                  ELSE LastSegment(audioSource)

\* C15: a second uploadFile call with the same name and content after one
\* initializeJob targets the destination of the first, so the remote
\* storage is left as the first call left it.
C15_UploadIdempotent ==
    /\ [](Cardinality(remoteInput) <= 1)
    /\ [][remoteInput # {} => remoteInput' = remoteInput]_vars

C15_Witness ==
    /\ calls["uploadFile"] = 2
    /\ Resolved("uploadFile")
    /\ Cardinality(remoteInput) = 1

\* C16 (as claimed): a sleep follows a non-terminal response only while the
\* attempt count is below the maximum; after the non-terminal response to
\* the last attempt the loop exits without sleeping.
C16_NoSleepAfterLastAttempt ==
    /\ pc = "sleep" => attempts < maxAttempts
    /\ sleeps <= maxAttempts - 1

\* C16 (amended): a sleep follows every non-terminal response, the one to
\* the last attempt included: one sleep separates consecutive status
\* checks, and a run that reaches the ceiling has slept maxAttempts times
\* before it reports the timeout.
C16_SleepAfterEveryNonTerminal ==
    /\ pc = "sleep" => sleeps + 1 = nonTerminal
    /\ pc # "sleep" => sleeps = nonTerminal
    /\ pc = "loop" => sleeps = calls["checkJobStatus"]
    /\ signal = "timeout"
          => (sleeps = maxAttempts /\ calls["checkJobStatus"] = maxAttempts)

C16_Witness ==
    /\ signal = "timeout"
    /\ sleeps = maxAttempts
    /\ pc = "exited"

\* C17: a job_state other than exactly 'Completed' or 'Failed' (Pending,
\* Running, an unknown word, another case, a missing field) is
\* non-terminal: the loop reports neither success nor failure for it and
\* goes on polling until the attempt ceiling.
C17_OtherStatesNonTerminal ==
    (Resolved("checkJobStatus") /\ status \notin {"Completed", "Failed"})
        => /\ signal \in {"none", "timeout"}
           /\ nonTerminal = calls["checkJobStatus"]
           /\ pc \in {"sleep", "loop", "afterLoop", "exited"}
           /\ pc \in {"afterLoop", "exited"} => attempts = maxAttempts
           /\ pc = "exited" => signal = "timeout"
           /\ ~Invoked("listOutputs")
           /\ ~complete

C17_Witness ==
    /\ status = "completed"
    /\ calls["checkJobStatus"] = 2
    /\ pc = "loop"

\* The outcomes a finished run can have.
Outcomes ==
    {o \in {"success", "remote failure", "timeout", "error"} :
        \/ o = "success" /\ complete
        \/ o = "remote failure" /\ signal = "failed"
        \/ o = "timeout" /\ signal = "timeout"
        \/ o = "error" /\ exitCode = 1}

\* C18 (as claimed): when every remote call and every sleep returns, every
\* run ends, in exactly one of the outcomes success, remote failure,
\* timeout or error, after at most maxAttempts status checks: a run that
\* has not ended can always take a further step.
C18_RunTerminates ==
    /\ calls["checkJobStatus"] <= maxAttempts
    /\ pc = "exited" \/ ENABLED Next
    /\ pc = "exited" => Cardinality(Outcomes) = 1

\* C19 (as claimed): the write destination opened for an artifact is
\* closed by the time downloadResults goes on or exits, normally or by an
\* error (one of the download stream while piped included); it is open
\* only while downloadResults awaits that artifact's running download.
C19_WriterClosedOnExit ==
    \A i \in Idx :
        /\ writer[i] = "opening" => (pc = "dl_await" /\ fileIdx = i)
        /\ writer[i] = "open"
              => (pc = "dl_await" /\ fileIdx = i /\ src[i] = "flowing")

IsDigits(s) == \A i \in 1..Len(s) : \E d \in 1..10 : s[i] = DigitChars[d]

\* The number a string of decimal digits denotes.
RECURSIVE ToNat(_)
ToNat(s) ==
    IF s = <<>> THEN 0
    ELSE 10 * ToNat(SubSeq(s, 1, Len(s) - 1))
           + ((CHOOSE d \in 1..10 : s[Len(s)] = DigitChars[d]) - 1)

\* out reads H:MM:SS, with MM and SS two digits in 00..59, and denotes the
\* whole number of seconds secs.
IsHMMSS(out, secs) ==
    LET colons == {i \in 1..Len(out) : out[i] = ":"}
        c1 == CHOOSE i \in colons : \A j \in colons : i <= j
        c2 == CHOOSE i \in colons : \A j \in colons : j <= i
        H == SubSeq(out, 1, c1 - 1)
        MM == SubSeq(out, c1 + 1, c2 - 1)
        SS == SubSeq(out, c2 + 1, Len(out))
    IN /\ Cardinality(colons) = 2
       /\ Len(H) >= 1 /\ IsDigits(H)
       /\ Len(MM) = 2 /\ IsDigits(MM) /\ ToNat(MM) <= 59
       /\ Len(SS) = 2 /\ IsDigits(SS) /\ ToNat(SS) <= 59
       /\ ToNat(H) * 3600 + ToNat(MM) * 60 + ToNat(SS) = secs

\* label reads SPEAKER followed by the number k, padded with zeros on the
\* left to two digits when it has fewer.
IsSpeakerLabel(label, k) ==
    LET num == SubSeq(label, 8, Len(label))
    IN /\ SubSeq(label, 1, 7) = <<"S", "P", "E", "A", "K", "E", "R">>
       /\ Len(num) >= 2 /\ IsDigits(num)
       /\ Len(num) > 2 => num[1] # "0"
       /\ ToNat(num) = k

\* C20: fmt maps every non-negative whole number of seconds s to H:MM:SS
\* with MM and SS two digits in 00..59 and H*3600 + MM*60 + SS = s, and
\* the speaker label is SPEAKER followed by the speaker number padded with
\* zeros to at least two digits.
C20_TimestampAndSpeakerFormat ==
    pc = "formatted"
        => /\ utterance.start % 10 = 0
                => IsHMMSS(formatted.start, utterance.start \div 10)
           /\ utterance.end % 10 = 0
                => IsHMMSS(formatted.end, utterance.end \div 10)
           /\ IsSpeakerLabel(formatted.speaker, utterance.speaker)

C20_Witness ==
    /\ pc = "formatted"
    /\ utterance.start = 36610
    /\ utterance.speaker = 7
    /\ formatted.start = <<"1", ":", "0", "1", ":", "0", "1">>
    /\ formatted.speaker = <<"S", "P", "E", "A", "K", "E", "R", "0", "7">>

====
